---- MODULE Spec2Model ----
(***************************************************************************)
(* nx_io.readlines: ReadLines, an iterator reading delimited lines from a  *)
(* stream, and _Reader, the stream wrapper that keeps combining characters *)
(* together when a normalization form is configured.                       *)
(*                                                                         *)
(* Data are sequences of units (one-character strings).  Indices are the   *)
(* 0-based offsets Python uses; Slice(s, a, b) is s[a:b].  An optional     *)
(* value is a sequence of length 0 (None) or 1.                            *)
(***************************************************************************)
EXTENDS Integers, Sequences, FiniteSets, TLC

VARIABLES
    content,          \* the data of the underlying stream (io.StringIO / io.BytesIO)
    binary,           \* TRUE for a byte stream; ReadLines._binary after construction
    seekable,         \* what the stream's seekable() answers
    pos,              \* the underlying stream's position
    phase,            \* "new": no reader yet; "ready": a ReadLines object
                      \* exists; "rejected": its construction raised
    form,             \* _Reader._form
    start,            \* _Reader._start (None when not seekable)
    prev_extra,       \* _Reader._prev_extra
    buf,              \* ReadLines._buf
    idx,              \* ReadLines._idx
    eof,              \* ReadLines._eof
    line,             \* ReadLines._line (None when no line is cached)
    delimiter_pos,    \* ReadLines._delimiter_pos
    delimiter,        \* ReadLines._delimiter
    strip_delimiter,  \* ReadLines.strip_delimiter
    block_size,       \* ReadLines._block_size
    out,              \* the lines next() has returned since construction / reset
    consumed,         \* units of the stream next() has consumed since then
    stopped,          \* next() has raised StopIteration since then
    origin,           \* the stream's position when the reader was constructed
    opening           \* a call of open_file: its arguments, the io.open calls
                      \* it made and how it ended ("none" before the call)

vars == <<content, binary, seekable, pos, phase, form, start, prev_extra,
          buf, idx, eof, line, delimiter_pos, delimiter, strip_delimiter,
          block_size, out, consumed, stopped, origin, opening>>

-----------------------------------------------------------------------------
(* Bounds of the model *)

\* longest stream content
MaxLen == 3
\* largest small block size (the default block size is always included)
MaxBlock == 2
\* largest size given to peek(size)
MaxPeek == 3
\* largest stream offset at which a reader is constructed
MaxStart == 1

(* Program constants *)

DEFAULT_BLOCK_SIZE == 1048756
SCAN_SIZE == 512
\* what str.find returns, and _get_next_line records, when there is no match
NOT_FOUND == -1

-----------------------------------------------------------------------------
(* Values *)

None == <<>>
Some(x) == <<x>>

Max(a, b) == IF a >= b THEN a ELSE b
Min(a, b) == IF a <= b THEN a ELSE b

\* s[a:b] for 0 <= a, 0 <= b
Slice(s, a, b) == SubSeq(s, a + 1, Min(b, Len(s)))

\* math.ceil(a / b) for b > 0
Ceil(a, b) == 0 - ((0 - a) \div b)

\* the units of the model: a letter and a delimiter character
Units == {"a", "~"}

SeqsUpTo(S, n) == UNION {[1..k -> S] : k \in 0..n}

(* Delimiters.  kind "str" / "bytes": a literal, text its units.  kind     *)
(* "re" / "bre": a compiled pattern over characters / bytes, alts its      *)
(* alternatives in order, each a sequence of atoms [ch, q] with q one of   *)
(* "1" (exactly one), "+" (one or more, greedy), "*" (zero or more,        *)
(* greedy).  kind "other": a value that is neither.                        *)
Lit(t) == [kind |-> "str", text |-> t, alts |-> <<>>]
BLit(t) == [kind |-> "bytes", text |-> t, alts |-> <<>>]
Re(a) == [kind |-> "re", text |-> <<>>, alts |-> a]
BRe(a) == [kind |-> "bre", text |-> <<>>, alts |-> a]
Other == [kind |-> "other", text |-> <<>>, alts |-> <<>>]

One(c) == [ch |-> c, q |-> "1"]
Plus(c) == [ch |-> c, q |-> "+"]
Star(c) == [ch |-> c, q |-> "*"]

-----------------------------------------------------------------------------
(* The underlying stream: io.StringIO / io.BytesIO *)

\* read(n): up to n units from position p; everything when n < 0
FobjRead(c, p, n) ==
    IF n < 0 THEN Slice(c, p, Len(c)) ELSE Slice(c, p, p + n)

-----------------------------------------------------------------------------
(* unicodedata, on the units of the normalization model: "o" a base        *)
(* letter, "^" a combining mark, "O" the two precomposed; "g" a leading    *)
(* and "v" a vowel conjoining jamo, both of combining class 0, "G" the     *)
(* syllable the two compose to                                             *)

combining(u) == u = "^"

RECURSIVE Compose(_)
Compose(s) ==
    IF Len(s) < 2 THEN s
    ELSE IF s[1] = "o" /\ s[2] = "^" THEN <<"O">> \o Compose(SubSeq(s, 3, Len(s)))
    ELSE IF s[1] = "g" /\ s[2] = "v" THEN <<"G">> \o Compose(SubSeq(s, 3, Len(s)))
    ELSE <<s[1]>> \o Compose(Tail(s))

RECURSIVE Decompose(_)
Decompose(s) ==
    IF s = <<>> THEN s
    ELSE (IF s[1] = "O" THEN <<"o", "^">>
          ELSE IF s[1] = "G" THEN <<"g", "v">>
          ELSE <<s[1]>>) \o Decompose(Tail(s))

normalize(f, s) ==
    IF f \in {"NFC", "NFKC"} THEN Compose(Decompose(s)) ELSE Decompose(s)

ValidForms == {"NFC", "NFKC", "NFD", "NFKD", "None"}

-----------------------------------------------------------------------------
(* _Reader.read *)

\* index of the first non-combining unit of extra, NOT_FOUND when there is none
FirstOf(S) == IF S = {} THEN NOT_FOUND ELSE CHOOSE i \in S : \A j \in S : i <= j
FirstNonCombining(extra) ==
    FirstOf({i \in 0..(Len(extra) - 1) : ~combining(extra[i + 1])})

\* the scan for a non-combining unit, the while loop of _Reader.read: b the
\* buffer so far, extra the data just scanned, p the stream position after
\* it, scan the value of the module's SCAN_SIZE at the time of the call
RECURSIVE ScanExtra(_, _, _, _, _)
\* ScanFound that takes the non-combining unit for read and keeps what
\* follows it
ScanFoundDrops(p, b, extra, i) ==
    [data |-> b \o Slice(extra, 0, i), pos |-> p,
     prev_extra |-> Slice(extra, i + 1, Len(extra))]
ScanFound(p, b, extra, i) ==
    [data |-> b \o Slice(extra, 0, i), pos |-> p,
     prev_extra |-> Slice(extra, i, Len(extra))]
ScanMore(c, p, b, more, scan) == ScanExtra(c, p + Len(more), b, more, scan)
\* ScanStep that scans once and takes what combining units it saw
ScanStepOnce(c, p, b, extra, i, scan) ==
    IF i # NOT_FOUND THEN ScanFound(p, b, extra, i)
    ELSE [data |-> b \o extra, pos |-> p, prev_extra |-> <<>>]
ScanStep(c, p, b, extra, i, scan) ==
    IF i # NOT_FOUND THEN ScanFound(p, b, extra, i)
    ELSE ScanMore(c, p, b \o extra, FobjRead(c, p, scan), scan)
ScanExtra(c, p, b, extra, scan) ==
    IF extra = <<>> THEN [data |-> b, pos |-> p, prev_extra |-> <<>>]
    ELSE ScanStep(c, p, b, extra, FirstNonCombining(extra), scan)

\* a read with no form: straight from the stream
ReadDirect(s, d) ==
    [data |-> d, pos |-> s.pos + Len(d), prev_extra |-> s.prev_extra]

\* what is asked of the stream given the carry-over pe
ReadFirst(s, pe, size) ==
    IF pe # <<>>
    THEN (IF Len(pe) < size THEN FobjRead(s.content, s.pos, size - Len(pe)) ELSE <<>>)
    ELSE FobjRead(s.content, s.pos, size)

ReadNormalized(f, r) ==
    [data |-> normalize(f, r.data), pos |-> r.pos, prev_extra |-> r.prev_extra]

ReadScan(s, b, p1, extra, scan) ==
    ScanExtra(s.content, p1 + Len(extra), b, extra, scan)

\* the buffer of a character stream as it is when normalize is applied to
\* it, got being what the first read returned
Scanned(s, got, scan) ==
    ReadScan(s, s.prev_extra \o got, s.pos + Len(got),
             FobjRead(s.content, s.pos + Len(got), scan), scan)

\* ReadWithForm that takes every stream for a character stream
ReadWithFormText(s, got, scan) == ReadNormalized(s.form, Scanned(s, got, scan))

\* the read with a form, got being what the first read returned
ReadWithForm(s, got, scan) ==
    IF s.binary
    THEN [data |-> got, pos |-> s.pos + Len(got), prev_extra |-> s.prev_extra]
    ELSE ReadNormalized(s.form, Scanned(s, got, scan))

\* _Reader.read(size) on state record s while SCAN_SIZE is scan: the data
\* returned, the new stream position and the new carry-over
ReadBy(s, size, scan) ==
    IF s.form = "None"
    THEN ReadDirect(s, FobjRead(s.content, s.pos, size))
    ELSE ReadWithForm(s, ReadFirst(s, s.prev_extra, size), scan)

\* _Reader.read(size) with the SCAN_SIZE of the module
Read(s, size) == ReadBy(s, size, SCAN_SIZE)

-----------------------------------------------------------------------------
(* Searching: str.find and the pattern's search *)

\* Find that returns the last occurrence
FindLast(text, d, from) ==
    IF {i \in from..(Len(text) - Len(d)) : Slice(text, i, i + Len(d)) = d} = {}
    THEN NOT_FOUND
    ELSE CHOOSE i \in from..(Len(text) - Len(d)) :
             /\ Slice(text, i, i + Len(d)) = d
             /\ \A j \in (i + 1)..(Len(text) - Len(d)) : Slice(text, j, j + Len(d)) # d

\* text.find(d, from), for a non-empty d
Find(text, d, from) ==
    FirstOf({i \in from..(Len(text) - Len(d)) : Slice(text, i, i + Len(d)) = d})

\* number of consecutive units equal to c in text from index i
RECURSIVE RunLen(_, _, _)
RunLen(text, i, c) ==
    IF i < Len(text) /\ text[i + 1] = c THEN 1 + RunLen(text, i + 1, c) ELSE 0

\* the most units atom a can take at index i
MostOf(a, text, i) ==
    IF a.q = "1" THEN Min(RunLen(text, i, a.ch), 1) ELSE RunLen(text, i, a.ch)
LeastOf(a) == IF a.q = "*" THEN 0 ELSE 1

\* where a match of atoms[k..] that begins at index i ends, NOT_FOUND when
\* there is none: atom k takes n units, then fewer when the rest cannot match
RECURSIVE MatchAtoms(_, _, _, _)
RECURSIVE TryCounts(_, _, _, _, _)
Backtrack(atoms, k, text, i, n, r) ==
    IF r # NOT_FOUND THEN r ELSE TryCounts(atoms, k, text, i, n - 1)
TryCounts(atoms, k, text, i, n) ==
    IF n < LeastOf(atoms[k]) THEN NOT_FOUND
    ELSE Backtrack(atoms, k, text, i, n, MatchAtoms(atoms, k + 1, text, i + n))
MatchAtoms(atoms, k, text, i) ==
    IF k > Len(atoms) THEN i
    ELSE TryCounts(atoms, k, text, i, MostOf(atoms[k], text, i))

\* the end of the match of the first alternative that matches at index i
RECURSIVE MatchAlts(_, _, _, _)
NextAlt(alts, k, text, i, r) ==
    IF r # NOT_FOUND THEN r ELSE MatchAlts(alts, k + 1, text, i)
MatchAlts(alts, k, text, i) ==
    IF k > Len(alts) THEN NOT_FOUND
    ELSE NextAlt(alts, k, text, i, MatchAtoms(alts[k], 1, text, i))

\* pattern.search(text, from): the leftmost match
MatchFrom(alts, text, i) ==
    IF i = NOT_FOUND THEN [found |-> FALSE, start |-> 0, end |-> 0]
    ELSE [found |-> TRUE, start |-> i, end |-> MatchAlts(alts, 1, text, i)]
ReSearch(alts, text, from) ==
    MatchFrom(alts, text,
              FirstOf({i \in from..Len(text) : MatchAlts(alts, 1, text, i) # NOT_FOUND}))

-----------------------------------------------------------------------------
(* ReadLines *)

\* the reader and its stream as one record, the argument of the operators
\* that model the methods
Self ==
    [content |-> content, binary |-> binary, seekable |-> seekable, pos |-> pos,
     form |-> form, start |-> start, prev_extra |-> prev_extra,
     buf |-> buf, idx |-> idx, eof |-> eof, line |-> line,
     delimiter_pos |-> delimiter_pos, delimiter |-> delimiter,
     strip_delimiter |-> strip_delimiter, block_size |-> block_size]

\* one search of the buffer: final when a line ends here, else the
\* delimiter_start and search_offset the code carries to the next round

\* LiteralStep with a back-off of the delimiter's whole length
LiteralStepWide(d, ds) ==
    IF ds # NOT_FOUND
    THEN [final |-> TRUE, delimiter_start |-> ds, end |-> ds + Len(d.text),
          search_offset |-> 0]
    ELSE [final |-> FALSE, delimiter_start |-> ds, end |-> 0,
          search_offset |-> Len(d.text)]

\* LiteralStep with no back-off
LiteralStepNoOffset(d, ds) ==
    IF ds # NOT_FOUND
    THEN [final |-> TRUE, delimiter_start |-> ds, end |-> ds + Len(d.text),
          search_offset |-> 0]
    ELSE [final |-> FALSE, delimiter_start |-> ds, end |-> 0,
          search_offset |-> 0]

\* a literal delimiter, ds what find returned
LiteralStep(d, ds) ==
    IF ds # NOT_FOUND
    THEN [final |-> TRUE, delimiter_start |-> ds, end |-> ds + Len(d.text),
          search_offset |-> 0]
    ELSE [final |-> FALSE, delimiter_start |-> ds, end |-> 0,
          search_offset |-> Len(d.text) - 1]

\* PatternStep that rescans the pending data after a provisional match
PatternStepRescan(b, i, r) ==
    IF r.found
    THEN IF r.end # Len(b)
         THEN [final |-> TRUE, delimiter_start |-> r.start, end |-> r.end,
               search_offset |-> 0]
         ELSE [final |-> FALSE, delimiter_start |-> r.start, end |-> r.end,
               search_offset |-> Len(b) - i]
    ELSE [final |-> FALSE, delimiter_start |-> NOT_FOUND, end |-> 0,
          search_offset |-> Len(b) - i]

\* PatternStep that takes a match at the end of the buffer as final
PatternStepEager(b, i, r) ==
    IF r.found
    THEN [final |-> TRUE, delimiter_start |-> r.start, end |-> r.end,
          search_offset |-> 0]
    ELSE [final |-> FALSE, delimiter_start |-> NOT_FOUND, end |-> 0,
          search_offset |-> Len(b) - i]

\* a pattern delimiter, r what search returned on buffer b, i the local idx
PatternStep(b, i, r) ==
    IF r.found
    THEN IF r.end # Len(b)
         THEN [final |-> TRUE, delimiter_start |-> r.start, end |-> r.end,
               search_offset |-> 0]
         ELSE [final |-> FALSE, delimiter_start |-> r.start, end |-> r.end,
               search_offset |-> r.end - r.start]
    ELSE [final |-> FALSE, delimiter_start |-> NOT_FOUND, end |-> 0,
          search_offset |-> Len(b) - i]

SearchStep(d, b, i, search_idx) ==
    IF d.kind \in {"str", "bytes"}
    THEN LiteralStep(d, Find(b, d.text, search_idx))
    ELSE PatternStep(b, i, ReSearch(d.alts, b, search_idx))

\* NextSearchIdx without the back-off: the search resumes where the buffer ended
NextSearchIdxNoBackOff(b, search_offset) == Len(b)

\* where the search resumes once the buffer was truncated to b
NextSearchIdx(b, search_offset) == Max(0, Len(b) - search_offset)

\* LineFound that moves the cursor one unit past the match end
LineFoundSkip(s, i, st) ==
    [s |-> [s EXCEPT !.idx = Min(st.end + 1, Len(s.buf))], raised |-> FALSE,
     line |-> Slice(s.buf, i, st.end), delimiter_pos |-> st.delimiter_start - i]

\* the return when the match is final: the cursor moves to the match end
LineFound(s, i, st) ==
    [s |-> [s EXCEPT !.idx = st.end], raised |-> FALSE,
     line |-> Slice(s.buf, i, st.end), delimiter_pos |-> st.delimiter_start - i]

\* AtEof that drops the rest of the buffer
AtEofDropped(s, i, st, end) ==
    [s |-> [s EXCEPT !.buf = <<>>, !.idx = 0], raised |-> TRUE,
     line |-> <<>>, delimiter_pos |-> 0]

\* AtEof that takes the flag back when it raises
AtEofReopens(s, i, st, end) ==
    IF i < end
    THEN [s |-> [s EXCEPT !.buf = <<>>, !.idx = 0], raised |-> FALSE,
          line |-> Slice(s.buf, i, end),
          delimiter_pos |-> (IF st.delimiter_start = NOT_FOUND
                             THEN end ELSE st.delimiter_start) - i]
    ELSE [s |-> [s EXCEPT !.buf = <<>>, !.idx = 0, !.eof = FALSE], raised |-> TRUE,
          line |-> <<>>, delimiter_pos |-> 0]

\* AtEof that takes the delimiter position from the search as it is
AtEofOffset(s, i, st, end) ==
    IF i < end
    THEN [s |-> [s EXCEPT !.buf = <<>>, !.idx = 0], raised |-> FALSE,
          line |-> Slice(s.buf, i, end), delimiter_pos |-> st.delimiter_start - i]
    ELSE [s |-> [s EXCEPT !.buf = <<>>, !.idx = 0], raised |-> TRUE,
          line |-> <<>>, delimiter_pos |-> 0]

\* no final match and no more data: the rest of the buffer, or StreamExhausted
AtEof(s, i, st, end) ==
    IF i < end
    THEN [s |-> [s EXCEPT !.buf = <<>>, !.idx = 0], raised |-> FALSE,
          line |-> Slice(s.buf, i, end),
          delimiter_pos |-> (IF st.delimiter_start = NOT_FOUND
                             THEN end ELSE st.delimiter_start) - i]
    ELSE [s |-> [s EXCEPT !.buf = <<>>, !.idx = 0], raised |-> TRUE,
          line |-> <<>>, delimiter_pos |-> 0]

\* the buffer is truncated to b1 and more, just read, is appended
Filled(s, b1, more) ==
    [s EXCEPT !.buf = b1 \o more.data, !.pos = more.pos,
              !.prev_extra = more.prev_extra,
              !.eof = IF more.data = <<>> THEN TRUE ELSE s.eof]

\* the loop of _get_next_line; s.buf and s.eof are the locals buf and eof
\* (equal to the attributes at the top of every round), i the local idx
RECURSIVE GetNextLineLoop(_, _, _)
Refill(s, b1, search_offset) ==
    GetNextLineLoop(Filled(s, b1, Read(s, s.block_size)), 0,
                    NextSearchIdx(b1, search_offset))
LoopStep(s, i, st) ==
    IF st.final THEN LineFound(s, i, st)
    ELSE IF s.eof THEN AtEof(s, i, st, Len(s.buf))
    ELSE Refill(s, Slice(s.buf, i, Len(s.buf)), st.search_offset)
GetNextLineLoop(s, i, search_idx) ==
    LoopStep(s, i, SearchStep(s.delimiter, s.buf, i, search_idx))

\* the rounds of that loop in order: for each, the buffer, the local idx,
\* where the search began, the eof flag and what the search found
RECURSIVE Rounds(_, _, _)
RoundsAfter(s, i, search_idx, st) ==
    <<[buf |-> s.buf, i |-> i, search_idx |-> search_idx, eof |-> s.eof, st |-> st]>>
        \o (IF st.final \/ s.eof THEN <<>>
            ELSE Rounds(Filled(s, Slice(s.buf, i, Len(s.buf)), Read(s, s.block_size)),
                        0,
                        NextSearchIdx(Slice(s.buf, i, Len(s.buf)), st.search_offset)))
Rounds(s, i, search_idx) ==
    RoundsAfter(s, i, search_idx, SearchStep(s.delimiter, s.buf, i, search_idx))

\* _get_next_line: raised is StreamExhausted
GetNextLine(s) == GetNextLineLoop(s, s.idx, s.idx)

\* Format with the flag ignored
FormatUnstripped(s, l, dp) == l

\* the text a call returns for a line and its delimiter position
Format(s, l, dp) == IF s.strip_delimiter THEN Slice(l, 0, dp) ELSE l

\* CacheAfter that never keeps the line
CacheAfterDropped(s, consume, l, dp) ==
    [s EXCEPT !.line = None, !.delimiter_pos = None]

\* the cache after a line was fetched from the buffer
CacheAfter(s, consume, l, dp) ==
    IF consume
    THEN [s EXCEPT !.line = None, !.delimiter_pos = None]
    ELSE [s EXCEPT !.line = Some(l), !.delimiter_pos = Some(dp)]

\* FromCache that strips by the line's length, not by the delimiter position
FromCacheWhole(s, consume) ==
    [s |-> IF consume THEN [s EXCEPT !.line = None, !.delimiter_pos = None] ELSE s,
     raised |-> FALSE, raw |-> s.line[1], val |-> s.line[1], cached |-> TRUE]

\* a cached line is available
FromCache(s, consume) ==
    [s |-> IF consume THEN [s EXCEPT !.line = None, !.delimiter_pos = None] ELSE s,
     raised |-> FALSE, raw |-> s.line[1],
     val |-> Format(s, s.line[1], s.delimiter_pos[1]), cached |-> TRUE]

\* no line is cached, r is what _get_next_line returned
FromBuffer(s, consume, r) ==
    IF r.raised
    THEN [s |-> r.s, raised |-> TRUE, raw |-> <<>>, val |-> <<>>, cached |-> FALSE]
    ELSE [s |-> CacheAfter(r.s, consume, r.line, r.delimiter_pos),
          raised |-> FALSE, raw |-> r.line,
          val |-> Format(s, r.line, r.delimiter_pos), cached |-> FALSE]

\* _get_line: raw is the whole line, val what is returned
GetLine(s, consume) ==
    IF s.line # None THEN FromCache(s, consume)
    ELSE FromBuffer(s, consume, GetNextLine(s))

\* how much peek(size) asks of the stream when extra_needed units are missing
ToRead(extra_needed, bs) == Ceil(extra_needed, bs) * bs

\* the while loop of peek(size): b and e are the locals buf and eof;
\* reads collects the sizes asked of the stream
RECURSIVE PeekLoop(_, _, _, _, _)
PeekRead(s, b, size, reads, to_read, tmp) ==
    IF tmp.data # <<>>
    THEN PeekLoop([s EXCEPT !.pos = tmp.pos, !.prev_extra = tmp.prev_extra],
                  b \o tmp.data, FALSE, size, Append(reads, to_read))
    ELSE PeekLoop([s EXCEPT !.pos = tmp.pos, !.prev_extra = tmp.prev_extra,
                            !.eof = TRUE],
                  b, TRUE, size, Append(reads, to_read))
PeekAsk(s, b, size, reads, to_read) ==
    PeekRead(s, b, size, reads, to_read, Read(s, to_read))
PeekLoop(s, b, e, size, reads) ==
    IF e \/ size - Len(b) = 0
    THEN [s |-> [s EXCEPT !.buf = b, !.idx = 0], b |-> b, reads |-> reads]
    ELSE PeekAsk(s, b, size, reads, ToRead(size - Len(b), s.block_size))

\* PeekSize that takes a negative size for 0
PeekSizeClamped(s, size) ==
    IF size <= 0
    THEN [s |-> s, kind |-> "value", val |-> <<>>, bytes |-> FALSE, reads |-> <<>>]
    ELSE [s |-> PeekLoop(s, Slice(s.buf, s.idx, Len(s.buf)), s.eof, size, <<>>).s,
          kind |-> "value",
          val |-> Slice(PeekLoop(s, Slice(s.buf, s.idx, Len(s.buf)), s.eof, size, <<>>).b,
                        0, size),
          bytes |-> s.binary, reads |-> <<>>]

\* what peek(size) starts from: the unconsumed part of the buffer
PeekStart(s) == Slice(s.buf, s.idx, Len(s.buf))

PeekResult(s, size, r) ==
    [s |-> r.s, kind |-> "value", val |-> Slice(r.b, 0, size),
     bytes |-> s.binary, reads |-> r.reads]

\* peek(size) for an integer size
PeekSize(s, size) ==
    IF size < 0
    THEN [s |-> s, kind |-> "ValueError", val |-> <<>>, bytes |-> FALSE, reads |-> <<>>]
    ELSE IF size = 0
    THEN [s |-> s, kind |-> "value", val |-> <<>>, bytes |-> FALSE, reads |-> <<>>]
    ELSE PeekResult(s, size, PeekLoop(s, PeekStart(s), s.eof, size, <<>>))

\* PeekLineResult that lets StreamExhausted through
PeekLineRaises(s, r) ==
    IF r.raised
    THEN [s |-> r.s, kind |-> "StreamExhausted", val |-> <<>>, bytes |-> FALSE,
          raw |-> <<>>]
    ELSE [s |-> r.s, kind |-> "value", val |-> r.val, bytes |-> s.binary,
          raw |-> r.raw]

PeekLineResult(s, r) ==
    IF r.raised
    THEN [s |-> r.s, kind |-> "value", val |-> <<>>, bytes |-> FALSE, raw |-> <<>>]
    ELSE [s |-> r.s, kind |-> "value", val |-> r.val, bytes |-> s.binary,
          raw |-> r.raw]

\* peek() with no size: the forth-coming line, '' when there is none
PeekLine(s) == PeekLineResult(s, GetLine(s, FALSE))

\* the pattern's search of the probe text found a zero-length match
ZeroMatch(r) == r.found /\ r.start = r.end

\* ValidateDelimiter without the comparison with the stream's mode
ValidateDelimiterAnyMode(value, bin) ==
    IF value.kind \in {"str", "bytes"}
    THEN IF value.text = <<>> THEN "ValueError" ELSE "ok"
    ELSE IF value.kind \in {"re", "bre"}
    THEN IF ZeroMatch(ReSearch(value.alts, <<"t", "e", "s", "t">>, 0))
         THEN "ValueError" ELSE "ok"
    ELSE "ValueError"

\* the delimiter setter's validation: "ok" or the error it raises
ValidateDelimiter(value, bin) ==
    IF value.kind \in {"str", "bytes"}
    THEN IF value.text = <<>> THEN "ValueError"
         ELSE IF (value.kind = "bytes") # bin THEN "ValueError"
         ELSE "ok"
    ELSE IF value.kind \in {"re", "bre"}
    THEN IF (value.kind = "bre") # bin THEN "ValueError"
         ELSE IF ZeroMatch(ReSearch(value.alts, <<"t", "e", "s", "t">>, 0))
         THEN "ValueError" ELSE "ok"
    ELSE "ValueError"

\* Assigned that stores the value before the validation's verdict counts
AssignedAnyway(s, value, v) ==
    [s |-> [s EXCEPT !.delimiter = value], kind |-> IF v = "ok" THEN "value" ELSE v]

\* the end of the setter: the value is stored when the validation passed
Assigned(s, value, v) ==
    IF v = "ok" THEN [s |-> [s EXCEPT !.delimiter = value], kind |-> "value"]
    ELSE [s |-> s, kind |-> v]

\* the delimiter setter
SetDelimiter(s, value) == Assigned(s, value, ValidateDelimiter(value, s.binary))

\* ReaderInit that queries the stream's position before it checks the form
ReaderInitLate(s, f) ==
    [s |-> [s EXCEPT !.start = IF s.seekable THEN Some(s.pos) ELSE None,
                     !.form = IF f \in ValidForms THEN f ELSE s.form],
     kind |-> IF f \in ValidForms THEN "value" ELSE "ValueError"]

\* _Reader.__init__ on a stream at position p
ReaderInit(s, f) ==
    IF f \notin ValidForms
    THEN [s |-> s, kind |-> "ValueError"]
    ELSE [s |-> [s EXCEPT !.form = f,
                          !.start = IF s.seekable THEN Some(s.pos) ELSE None,
                          !.prev_extra = <<>>],
          kind |-> "value"]

\* the end of ReadLines.__init__: b is what the first read returned, v what
\* the delimiter setter said
Initialized(s, d, strip, bs, b, v) ==
    IF v # "ok"
    THEN [s |-> [s EXCEPT !.pos = b.pos, !.prev_extra = b.prev_extra,
                          !.strip_delimiter = strip, !.block_size = bs],
          kind |-> v]
    ELSE [s |-> [s EXCEPT !.pos = b.pos, !.prev_extra = b.prev_extra,
                          !.strip_delimiter = strip, !.block_size = bs,
                          !.delimiter = d, !.buf = b.data, !.idx = 0,
                          !.eof = (b.data = <<>>),
                          !.line = None, !.delimiter_pos = None],
          kind |-> "value"]

\* ReadLines.__init__ once the stream is wrapped in a _Reader
ReadLinesInit(s, d, strip, bs) ==
    Initialized(s, d, strip, bs, Read(s, bs), ValidateDelimiter(d, s.binary))

Wrapped(r, d, strip, bs) ==
    IF r.kind # "value" THEN r ELSE ReadLinesInit(r.s, d, strip, bs)

\* ReadLines(fobj, delimiter=d, form=f, strip_delimiter=strip, block_size=bs)
Construct(s, d, f, strip, bs) == Wrapped(ReaderInit(s, f), d, strip, bs)

\* SeekTarget that rewinds to the beginning of the stream
SeekTargetZero(s) == 0

\* where _Reader.reset seeks to
SeekTarget(s) == s.start[1]

\* Reset that clears the reader before it finds the stream cannot seek
ResetClearsFirst(s) ==
    IF s.start = None
    THEN [s |-> [s EXCEPT !.buf = <<>>, !.idx = 0, !.line = None,
                          !.delimiter_pos = None],
          kind |-> "ValueError"]
    ELSE ReadLinesInit(ReaderInit([s EXCEPT !.pos = s.start[1]], s.form).s,
                       s.delimiter, s.strip_delimiter, s.block_size)

\* Reset that seeks but leaves the _Reader as it is, carry-over included
ResetKeepsCarry(s) ==
    IF s.start = None
    THEN [s |-> s, kind |-> "ValueError"]
    ELSE ReadLinesInit([s EXCEPT !.pos = SeekTarget(s)],
                       s.delimiter, s.strip_delimiter, s.block_size)

\* ReadLines.reset, with the _Reader.reset it begins with
Reset(s) ==
    IF s.start = None
    THEN [s |-> s, kind |-> "ValueError"]
    ELSE ReadLinesInit(ReaderInit([s EXCEPT !.pos = SeekTarget(s)], s.form).s,
                       s.delimiter, s.strip_delimiter, s.block_size)

\* list(reader): the lines next() returns until StopIteration
RECURSIVE Iterate(_)
IterateOn(r) == IF r.raised THEN <<>> ELSE <<r.val>> \o Iterate(r.s)
Iterate(s) == IterateOn(GetLine(s, TRUE))

-----------------------------------------------------------------------------
(* Calls on a source whose read raises.  k is the number of reads of the   *)
(* source that still return before one raises OSError; a result is the     *)
(* state the call leaves, the exception that leaves the call ("none" when  *)
(* it returns), what it returns, and asked, the number of reads it asked   *)
(* of the source.  The reader has no form, so that one read of the _Reader *)
(* is one read of the source.                                              *)

\* the source's read raised while the reader was in state s
Failed(s, asked) ==
    [s |-> s, error |-> "OSError", line |-> <<>>, delimiter_pos |-> 0,
     asked |-> asked]

\* _get_next_line came to its end with r
Ended(r, asked) ==
    [s |-> r.s, error |-> IF r.raised THEN "StreamExhausted" ELSE "none",
     line |-> r.line, delimiter_pos |-> r.delimiter_pos, asked |-> asked]

\* the loop of _get_next_line on that source
RECURSIVE LoopFailing(_, _, _, _, _)
RefillFailing(s, b1, search_offset, k, asked) ==
    IF k = 0 THEN Failed(s, asked + 1)
    ELSE LoopFailing(Filled(s, b1, Read(s, s.block_size)), 0,
                     NextSearchIdx(b1, search_offset), k - 1, asked + 1)
StepFailing(s, i, st, k, asked) ==
    IF st.final THEN Ended(LineFound(s, i, st), asked)
    ELSE IF s.eof THEN Ended(AtEof(s, i, st, Len(s.buf)), asked)
    ELSE RefillFailing(s, Slice(s.buf, i, Len(s.buf)), st.search_offset, k, asked)
LoopFailing(s, i, search_idx, k, asked) ==
    StepFailing(s, i, SearchStep(s.delimiter, s.buf, i, search_idx), k, asked)

GetNextLineFailing(s, k) == LoopFailing(s, s.idx, s.idx, k, 0)

\* _get_line on that source: an exception of _get_next_line passes through
FromBufferFailing(s, consume, r) ==
    IF r.error # "none"
    THEN [s |-> r.s, error |-> r.error, val |-> <<>>, raw |-> <<>>, asked |-> r.asked]
    ELSE [s |-> CacheAfter(r.s, consume, r.line, r.delimiter_pos), error |-> "none",
          val |-> Format(s, r.line, r.delimiter_pos), raw |-> r.line,
          asked |-> r.asked]
FromCacheFailing(r) ==
    [s |-> r.s, error |-> "none", val |-> r.val, raw |-> r.raw, asked |-> 0]
GetLineFailing(s, consume, k) ==
    IF s.line # None THEN FromCacheFailing(FromCache(s, consume))
    ELSE FromBufferFailing(s, consume, GetNextLineFailing(s, k))

\* Caught that handles every exception
CaughtAny(r, exc, handled) == IF r.error # "none" THEN handled ELSE r

\* try: ... except exc: - r is how the body ended, handled how the handler ends
Caught(r, exc, handled) == IF r.error = exc THEN handled ELSE r

\* __next__ on that source
NextRaised(r) == Caught(r, "StreamExhausted", [r EXCEPT !.error = "StopIteration"])
NextFailing(s, k) == NextRaised(GetLineFailing(s, TRUE, k))

\* peek() on that source
PeekLineCaught(r) == Caught(r, "StreamExhausted", [r EXCEPT !.error = "none"])
PeekLineFailing(s, k) == PeekLineCaught(GetLineFailing(s, FALSE, k))

\* the while loop of peek(size) on that source
RECURSIVE PeekLoopFailing(_, _, _, _, _, _)
PeekReadFailing(s, b, size, k, asked, tmp) ==
    IF tmp.data # <<>>
    THEN PeekLoopFailing([s EXCEPT !.pos = tmp.pos, !.prev_extra = tmp.prev_extra],
                         b \o tmp.data, FALSE, size, k, asked)
    ELSE PeekLoopFailing([s EXCEPT !.pos = tmp.pos, !.prev_extra = tmp.prev_extra,
                                   !.eof = TRUE],
                         b, TRUE, size, k, asked)
PeekAskFailing(s, b, size, k, asked) ==
    IF k = 0
    THEN [s |-> s, error |-> "OSError", val |-> <<>>, raw |-> <<>>, asked |-> asked + 1]
    ELSE PeekReadFailing(s, b, size, k - 1, asked + 1,
                         Read(s, ToRead(size - Len(b), s.block_size)))
PeekLoopFailing(s, b, e, size, k, asked) ==
    IF e \/ size - Len(b) = 0
    THEN [s |-> [s EXCEPT !.buf = b, !.idx = 0], error |-> "none",
          val |-> Slice(b, 0, size), raw |-> <<>>, asked |-> asked]
    ELSE PeekAskFailing(s, b, size, k, asked)

\* peek(size) on that source
PeekSizeFailing(s, size, k) ==
    IF size < 0
    THEN [s |-> s, error |-> "ValueError", val |-> <<>>, raw |-> <<>>, asked |-> 0]
    ELSE IF size = 0
    THEN [s |-> s, error |-> "none", val |-> <<>>, raw |-> <<>>, asked |-> 0]
    ELSE PeekLoopFailing(s, PeekStart(s), s.eof, size, k, 0)

-----------------------------------------------------------------------------
(* open_file.  A file name is [kind, v, fspath]: kind "str", "bytes", "int" *)
(* (a descriptor), "Path" (a pathlib.Path), "object" (anything else); v its *)
(* text; fspath what its __fspath__ method returns, None when it has none.  *)

Name(k, v) == [kind |-> k, v |-> v, fspath |-> None]

\* str(path) of a pathlib.Path
Str(file_name) == Name("str", file_name.v)

\* io.open(name, *args, **kwargs): the call is recorded, a stream returned
IoOpen(name, args) ==
    [result |-> "stream", calls |-> <<[file_name |-> name, args |-> args]>>]

\* OpenFile that hands every file name to io.open as it is
OpenFileAnything(file_name, args) == IoOpen(file_name, args)

\* open_file(file_name, *args, **kwargs)
OpenFile(file_name, args) ==
    IF file_name.kind \in {"str", "bytes", "int"} THEN IoOpen(file_name, args)
    ELSE IF file_name.kind = "Path" THEN IoOpen(Str(file_name), args)
    ELSE IF file_name.fspath # None THEN IoOpen(file_name.fspath[1], args)
    ELSE [result |-> "TypeError", calls |-> <<>>]

\* no call of open_file
NotOpening ==
    [file_name |-> Name("object", ""), args |-> <<>>, calls |-> <<>>,
     result |-> "none"]

-----------------------------------------------------------------------------
(* The inputs of the model *)

Contents == SeqsUpTo(Units, MaxLen)

BlockSizes == (1..MaxBlock) \cup {DEFAULT_BLOCK_SIZE}

\* '~', '~~', re.compile('~+'), re.compile('a~a|~')
Tilde == Lit(<<"~">>)
Tilde2 == Lit(<<"~", "~">>)
TildeRun == Re(<< <<Plus("~")>> >>)
Ambiguous == Re(<< <<One("a"), One("~"), One("a")>>, <<One("~")>> >>)

ValidDelimiters == {Tilde, Tilde2, TildeRun, Ambiguous}

\* '', b'~', re.compile('~*'), 5
InvalidDelimiters == {Lit(<<>>), BLit(<<"~">>), Re(<< <<Star("~")>> >>), Other}

Forms == {"None"}

Modes == {FALSE}

\* b'~', re.compile(b'~+'): the delimiters of a byte stream
BTilde == BLit(<<"~">>)
BTildeRun == BRe(<< <<Plus("~")>> >>)

\* re.compile(''), re.compile('~*'), re.compile(b'~*'): patterns that match
\* zero-length at the start of the probe text
EmptyPattern == Re(<< <<>> >>)
ZeroPatterns == {EmptyPattern, Re(<< <<Star("~")>> >>), BRe(<< <<Star("~")>> >>)}

\* re.compile('t*'): matches zero-length wherever no 't' stands
TStar == Re(<< <<Star("t")>> >>)

\* every value offered as a delimiter to a stream of either mode
AllDelimiters ==
    ValidDelimiters \cup InvalidDelimiters \cup ZeroPatterns
        \cup {BTildeRun, BLit(<<>>)}

\* the text of the normalization model: base and mark, the two jamo, the
\* delimiter character
NormUnits == {"o", "^", "g", "v", "~"}
NormContents == SeqsUpTo(NormUnits, MaxLen)

\* 'NFX', 'nfc': not normalization forms
InvalidForms == {"NFX", "nfc"}

-----------------------------------------------------------------------------
(* The state machine *)

\* the variables of the reader and its stream take the values of record s
Install(s) ==
    /\ pos' = s.pos
    /\ form' = s.form
    /\ start' = s.start
    /\ prev_extra' = s.prev_extra
    /\ buf' = s.buf
    /\ idx' = s.idx
    /\ eof' = s.eof
    /\ line' = s.line
    /\ delimiter_pos' = s.delimiter_pos
    /\ delimiter' = s.delimiter
    /\ strip_delimiter' = s.strip_delimiter
    /\ block_size' = s.block_size
    /\ UNCHANGED <<content, binary, seekable, opening>>

\* a stream, positioned, and no reader yet
Init ==
    /\ content \in Contents
    /\ binary \in Modes
    /\ seekable \in BOOLEAN
    /\ pos \in 0..Min(MaxStart, Len(content))
    /\ phase = "new"
    /\ form = "None"
    /\ start = None
    /\ prev_extra = <<>>
    /\ buf = <<>>
    /\ idx = 0
    /\ eof = FALSE
    /\ line = None
    /\ delimiter_pos = None
    /\ delimiter = Other
    /\ strip_delimiter = FALSE
    /\ block_size = DEFAULT_BLOCK_SIZE
    /\ out = <<>>
    /\ consumed = 0
    /\ stopped = FALSE
    /\ origin = pos
    /\ opening = NotOpening

Constructed(r) ==
    /\ Install(r.s)
    /\ phase' = IF r.kind = "value" THEN "ready" ELSE "rejected"
    /\ UNCHANGED <<out, consumed, stopped, origin>>

DoConstruct(d, f, strip, bs) ==
    /\ phase = "new"
    /\ Constructed(Construct(Self, d, f, strip, bs))

\* next(reader) returned or raised r
Returned(r) ==
    /\ Install(r.s)
    /\ out' = IF r.raised THEN out ELSE Append(out, r.val)
    /\ consumed' = consumed + Len(r.raw)
    /\ stopped' = (stopped \/ r.raised)
    /\ UNCHANGED <<phase, origin>>

DoNext ==
    /\ phase = "ready"
    /\ Returned(GetLine(Self, TRUE))

DoPeekLine ==
    /\ phase = "ready"
    /\ Install(PeekLine(Self).s)
    /\ UNCHANGED <<phase, out, consumed, stopped, origin>>

DoPeekSize(n) ==
    /\ phase = "ready"
    /\ Install(PeekSize(Self, n).s)
    /\ UNCHANGED <<phase, out, consumed, stopped, origin>>

DoSetDelimiter(v) ==
    /\ phase = "ready"
    /\ Install(SetDelimiter(Self, v).s)
    /\ UNCHANGED <<phase, out, consumed, stopped, origin>>

DoSetStrip(b) ==
    /\ phase = "ready"
    /\ strip_delimiter' = b
    /\ UNCHANGED <<content, binary, seekable, pos, phase, form, start, prev_extra,
                   buf, idx, eof, line, delimiter_pos, delimiter, block_size,
                   out, consumed, stopped, origin, opening>>

WasReset(r) ==
    /\ Install(r.s)
    /\ out' = IF r.kind = "value" THEN <<>> ELSE out
    /\ consumed' = IF r.kind = "value" THEN 0 ELSE consumed
    /\ stopped' = IF r.kind = "value" THEN FALSE ELSE stopped
    /\ UNCHANGED <<phase, origin>>

DoReset ==
    /\ phase = "ready"
    /\ WasReset(Reset(Self))

ConstructSome ==
    \E d \in ValidDelimiters \cup InvalidDelimiters, f \in Forms,
       strip \in BOOLEAN, bs \in BlockSizes : DoConstruct(d, f, strip, bs)

Next ==
    \/ ConstructSome
    \/ DoNext
    \/ DoPeekLine
    \/ \E n \in (0 - 1)..MaxPeek : DoPeekSize(n)
    \/ \E v \in ValidDelimiters \cup InvalidDelimiters : DoSetDelimiter(v)
    \/ \E b \in BOOLEAN : DoSetStrip(b)
    \/ DoReset

\* every call in any order
Spec == Init /\ [][Next]_vars

\* construction, then iteration alone: for line in reader
NextIter ==
    \/ ConstructSome
    \/ DoNext

SpecIter == Init /\ [][NextIter]_vars

\* a reader used to the end of its stream: reads and peeks of every kind
\* with the settings changed between them, never rewound
NextReads ==
    \/ ConstructSome
    \/ DoNext
    \/ DoPeekLine
    \/ \E n \in 0..MaxPeek : DoPeekSize(n)
    \/ \E v \in ValidDelimiters \cup {Other} : DoSetDelimiter(v)
    \/ \E b \in BOOLEAN : DoSetStrip(b)

SpecReads == Init /\ [][NextReads]_vars

\* line reads with line peeks, delimiter assignments and flag changes
\* between them
NextLines ==
    \/ ConstructSome
    \/ DoNext
    \/ DoPeekLine
    \/ \E v \in ValidDelimiters \cup InvalidDelimiters : DoSetDelimiter(v)
    \/ \E b \in BOOLEAN : DoSetStrip(b)

SpecLines == Init /\ [][NextLines]_vars

\* a stream of either mode, positioned, and no reader yet
InitConfig ==
    /\ content \in Contents
    /\ binary \in BOOLEAN
    /\ seekable \in BOOLEAN
    /\ pos \in 0..Min(MaxStart, Len(content))
    /\ phase = "new"
    /\ form = "None"
    /\ start = None
    /\ prev_extra = <<>>
    /\ buf = <<>>
    /\ idx = 0
    /\ eof = FALSE
    /\ line = None
    /\ delimiter_pos = None
    /\ delimiter = Other
    /\ strip_delimiter = FALSE
    /\ block_size = DEFAULT_BLOCK_SIZE
    /\ out = <<>>
    /\ consumed = 0
    /\ stopped = FALSE
    /\ origin = pos
    /\ opening = NotOpening

ConstructAny ==
    \E d \in AllDelimiters, strip \in BOOLEAN, bs \in BlockSizes :
        DoConstruct(d, "None", strip, bs)

\* configuration: construction with, and assignment of, any delimiter on a
\* stream of either mode, between line reads
NextConfig ==
    \/ ConstructAny
    \/ DoNext
    \/ DoPeekLine
    \/ \E v \in AllDelimiters : DoSetDelimiter(v)

SpecConfig == InitConfig /\ [][NextConfig]_vars

\* the file names given to open_file: 'f', b'f', a descriptor, Path('f'),
\* objects whose __fspath__ returns 'f' or b'f', an open file object, None
Paths == {"f", "d/f"}
FileNames ==
    {Name(k, v) : k \in {"str", "bytes", "Path"}, v \in Paths}
        \cup {Name("int", "3"), Name("object", "file"), Name("object", "None")}
        \cup {[kind |-> "object", v |-> "File519", fspath |-> Some(Name(k, v))] :
                  k \in {"str", "bytes"}, v \in Paths}
        \cup {[kind |-> "Path", v |-> v, fspath |-> Some(Name("str", v))] : v \in Paths}

\* the other arguments: (), ('rb',), ('w',), (encoding='utf-8'), ('r', encoding='utf-8')
OpenArgs ==
    {<<>>, <<"rb">>, <<"w">>, <<"encoding=utf-8">>, <<"r", "encoding=utf-8">>}

\* no stream and no reader; open_file is about to be called
InitOpen ==
    /\ content = <<>>
    /\ binary = FALSE
    /\ seekable = FALSE
    /\ pos = 0
    /\ phase = "new"
    /\ form = "None"
    /\ start = None
    /\ prev_extra = <<>>
    /\ buf = <<>>
    /\ idx = 0
    /\ eof = FALSE
    /\ line = None
    /\ delimiter_pos = None
    /\ delimiter = Other
    /\ strip_delimiter = FALSE
    /\ block_size = DEFAULT_BLOCK_SIZE
    /\ out = <<>>
    /\ consumed = 0
    /\ stopped = FALSE
    /\ origin = 0
    /\ opening \in {[file_name |-> f, args |-> a, calls |-> <<>>, result |-> "none"] :
                       f \in FileNames, a \in OpenArgs}

Opened(r) ==
    /\ opening' = [opening EXCEPT !.calls = r.calls, !.result = r.result]
    /\ UNCHANGED <<content, binary, seekable, pos, phase, form, start, prev_extra,
                   buf, idx, eof, line, delimiter_pos, delimiter, strip_delimiter,
                   block_size, out, consumed, stopped, origin>>

DoOpenFile ==
    /\ opening.result = "none"
    /\ Opened(OpenFile(opening.file_name, opening.args))

NextOpen == DoOpenFile

SpecOpen == InitOpen /\ [][NextOpen]_vars

\* a byte stream whose bytes, were they characters, normalization would
\* change, positioned
InitBin ==
    /\ content \in NormContents
    /\ binary = TRUE
    /\ seekable \in BOOLEAN
    /\ pos \in 0..Min(MaxStart, Len(content))
    /\ phase = "new"
    /\ form = "None"
    /\ start = None
    /\ prev_extra = <<>>
    /\ buf = <<>>
    /\ idx = 0
    /\ eof = FALSE
    /\ line = None
    /\ delimiter_pos = None
    /\ delimiter = Other
    /\ strip_delimiter = FALSE
    /\ block_size = DEFAULT_BLOCK_SIZE
    /\ out = <<>>
    /\ consumed = 0
    /\ stopped = FALSE
    /\ origin = pos
    /\ opening = NotOpening

\* the forms given to a reader of bytes: none, a composing and a
\* decomposing one
BinForms == {"None", "NFC", "NFD"}

ConstructBytes ==
    \E f \in BinForms, strip \in BOOLEAN, bs \in BlockSizes :
        DoConstruct(BTilde, f, strip, bs)

\* a byte stream read with or without a form, reset included
NextBin ==
    \/ ConstructBytes
    \/ DoNext
    \/ DoReset

SpecBin == InitBin /\ [][NextBin]_vars

\* a character stream of the normalization model, positioned
InitForm ==
    /\ content \in NormContents
    /\ binary = FALSE
    /\ seekable \in BOOLEAN
    /\ pos \in 0..Min(MaxStart, Len(content))
    /\ phase = "new"
    /\ form = "None"
    /\ start = None
    /\ prev_extra = <<>>
    /\ buf = <<>>
    /\ idx = 0
    /\ eof = FALSE
    /\ line = None
    /\ delimiter_pos = None
    /\ delimiter = Other
    /\ strip_delimiter = FALSE
    /\ block_size = DEFAULT_BLOCK_SIZE
    /\ out = <<>>
    /\ consumed = 0
    /\ stopped = FALSE
    /\ origin = pos
    /\ opening = NotOpening

ConstructWithForm ==
    \E f \in ValidForms \cup InvalidForms, strip \in BOOLEAN, bs \in BlockSizes :
        DoConstruct(Tilde, f, strip, bs)

\* construction with a normalization form, then iteration
NextForm ==
    \/ ConstructWithForm
    \/ DoNext

SpecForm == InitForm /\ [][NextForm]_vars

\* a seekable character stream of base letters, marks and delimiter
\* characters, positioned
MarkedContents == SeqsUpTo({"o", "^", "~"}, MaxLen)

InitReset ==
    /\ content \in MarkedContents
    /\ binary = FALSE
    /\ seekable = TRUE
    /\ pos \in 0..Min(MaxStart, Len(content))
    /\ phase = "new"
    /\ form = "None"
    /\ start = None
    /\ prev_extra = <<>>
    /\ buf = <<>>
    /\ idx = 0
    /\ eof = FALSE
    /\ line = None
    /\ delimiter_pos = None
    /\ delimiter = Other
    /\ strip_delimiter = FALSE
    /\ block_size = DEFAULT_BLOCK_SIZE
    /\ out = <<>>
    /\ consumed = 0
    /\ stopped = FALSE
    /\ origin = pos
    /\ opening = NotOpening

ConstructFormed ==
    \E f \in {"NFC", "NFD"}, bs \in BlockSizes : DoConstruct(Tilde, f, FALSE, bs)

\* a reader with a form whose delimiter and flag are changed after
\* construction, between line reads, line peeks and resets
NextReset ==
    \/ ConstructFormed
    \/ DoNext
    \/ DoPeekLine
    \/ DoSetDelimiter(Tilde2)
    \/ DoSetStrip(TRUE)
    \/ DoReset

SpecReset == InitReset /\ [][NextReset]_vars

\* the values SCAN_SIZE is given: small ones, as the tests patch it, and
\* the module's own
ScanSizes == {1, 2, SCAN_SIZE}

\* _Reader(fobj, form=f) on the stream
DoReaderInit(f) ==
    /\ phase = "new"
    /\ Install(ReaderInit(Self, f).s)
    /\ phase' = "reading"
    /\ UNCHANGED <<out, consumed, stopped, origin>>

\* the _Reader returned r for read(size) under SCAN_SIZE scan, raw being its
\* buffer before normalize was applied
WasRead(size, scan, r, raw) ==
    /\ Install([Self EXCEPT !.pos = r.pos, !.prev_extra = r.prev_extra])
    /\ out' = Append(out, [size |-> size, scan |-> scan, raw |-> raw.data,
                           data |-> r.data])
    /\ consumed' = consumed + Len(raw.data)
    /\ stopped' = (stopped \/ r.data = <<>>)
    /\ UNCHANGED <<phase, origin>>

DoRead(size, scan) ==
    /\ phase = "reading"
    /\ ~stopped
    /\ WasRead(size, scan, ReadBy(Self, size, scan),
               Scanned(Self, ReadFirst(Self, prev_extra, size), scan))

\* the reads of a _Reader with a form on a character stream, one after
\* another, of any size under any scan size
NextScan ==
    \/ \E f \in {"NFC", "NFD"} : DoReaderInit(f)
    \/ \E size \in BlockSizes, scan \in ScanSizes : DoRead(size, scan)

SpecScan == InitReset /\ [][NextScan]_vars

\* the source's read raises at once, or after one or two reads more
Countdowns == {0, 1, 2}

\* a call r ended with the OSError of the source's read; what the reader is
\* after it is not followed further
Broke(r) ==
    /\ r.error = "OSError"
    /\ Install(r.s)
    /\ phase' = "failed"
    /\ UNCHANGED <<out, consumed, stopped, origin>>

DoNextFailing(k) == phase = "ready" /\ Broke(NextFailing(Self, k))

DoPeekLineFailing(k) == phase = "ready" /\ Broke(PeekLineFailing(Self, k))

DoPeekSizeFailing(n, k) == phase = "ready" /\ Broke(PeekSizeFailing(Self, n, k))

\* line reads and peeks on a source whose read raises at some time, in the
\* middle of a call
NextFault ==
    \/ ConstructSome
    \/ DoNext
    \/ DoPeekLine
    \/ \E n \in 0..MaxPeek : DoPeekSize(n)
    \/ \E k \in Countdowns : DoNextFailing(k)
    \/ \E k \in Countdowns : DoPeekLineFailing(k)
    \/ \E n \in 0..MaxPeek, k \in Countdowns : DoPeekSizeFailing(n, k)

SpecFault == Init /\ [][NextFault]_vars

-----------------------------------------------------------------------------
(* Vocabulary of the properties *)

Ready == phase = "ready"

\* line l ends with the literal d
EndsWith(l, d) == Len(l) >= Len(d) /\ Slice(l, Len(l) - Len(d), Len(l)) = d

\* line l holds an occurrence of the literal d that ends before l's end
EndsEarly(l, d) == \E i \in 0..(Len(l) - Len(d) - 1) : Slice(l, i, i + Len(d)) = d

\* the lines of a reader constructed on this stream at position p
Lines(p, d, strip, bs) ==
    Iterate(Construct([Self EXCEPT !.pos = p], d, form, strip, bs).s)

\* what next() returns or raises in state s
NextResult(s) ==
    LET r == GetLine(s, TRUE) IN [raised |-> r.raised, val |-> r.val]

\* the stream data next() has not returned yet
Unconsumed == Slice(content, origin + consumed, Len(content))

\* state s with the peeked line, if any, put back in front of the buffer
Unpeeked(s) ==
    IF s.line = None THEN s
    ELSE [s EXCEPT !.buf = s.line[1] \o Slice(s.buf, s.idx, Len(s.buf)), !.idx = 0,
                   !.line = None, !.delimiter_pos = None]

\* line l without the delimiter match that ends it
WithoutDelimiter(l, d) ==
    IF d.kind \in {"str", "bytes"}
    THEN IF EndsWith(l, d.text) THEN Slice(l, 0, Len(l) - Len(d.text)) ELSE l
    ELSE LET r == ReSearch(d.alts, l, 0)
         IN  IF r.found /\ r.end = Len(l) THEN Slice(l, 0, r.start) ELSE l

-----------------------------------------------------------------------------
(* C1 - C10 *)

\* C1 (SpecIter): with a literal delimiter and strip_delimiter off, every line
\* iteration yields is non-empty and holds no occurrence of the delimiter that
\* ends before the line's end, and a line that does not end with the
\* delimiter is the last one: the iteration is over after it.
C1_LiteralLines ==
    (Ready /\ delimiter.kind = "str" /\ ~strip_delimiter) =>
        \A k \in 1..Len(out) :
            /\ out[k] # <<>>
            /\ ~EndsEarly(out[k], delimiter.text)
            /\ ~EndsWith(out[k], delimiter.text) =>
                   (k = Len(out) /\ Iterate(Self) = <<>>)

\* 'a~a' read with '~' to exhaustion: 'a~', 'a'
C1_Witness ==
    /\ Ready /\ stopped /\ delimiter = Tilde /\ ~strip_delimiter
    /\ out = << <<"a", "~">>, <<"a">> >>

\* C2 (SpecIter): chunking invariance: the lines iteration has yielded at
\* exhaustion are the lines a reader of the same input and delimiter yields
\* with any other block size.
C2_ChunkingInvariance ==
    (Ready /\ stopped) =>
        \A bs \in BlockSizes : out = Lines(origin, delimiter, strip_delimiter, bs)

\* C3: peek(n), once or twice, then next() gives what next() gives directly.
C3_PeekSizeKeepsNext ==
    Ready =>
        \A n \in 0..MaxPeek :
            /\ NextResult(PeekSize(Self, n).s) = NextResult(Self)
            /\ \A m \in 0..MaxPeek :
                   NextResult(PeekSize(PeekSize(Self, n).s, m).s) = NextResult(Self)

\* C4: after a valid delimiter assignment the next line is the one derived
\* from the unconsumed position under the new delimiter, a peeked and not yet
\* consumed line included: nothing derived under the old delimiter is used.
C4_DelimiterTakesEffect ==
    Ready =>
        \A v \in ValidDelimiters :
            NextResult(SetDelimiter(Self, v).s)
                = NextResult(SetDelimiter(Unpeeked(Self), v).s)

\* first peek p1, second peek p2, the next() after them n1 and a next()
\* without the peeks, direct: the peeks agree and change nothing, and the
\* next() after them is the direct one, with no line left cached
PeeksKeepLine(p1, p2, n1, direct) ==
    /\ p2.val = p1.val
    /\ p2.s = p1.s
    /\ n1.raised = direct.raised
    /\ n1.val = p1.val
    /\ n1.val = direct.val
    /\ n1.s = direct.s
    /\ n1.s.line = None
    /\ NextResult(n1.s) = NextResult(direct.s)

PeekedAgain(p1, p2, direct) == PeeksKeepLine(p1, p2, GetLine(p2.s, TRUE), direct)

PeekedTwice(p1, direct) == PeekedAgain(p1, PeekLine(p1.s), direct)

\* C5: peek() does not consume: a second peek() returns the same line and
\* changes nothing, the next() that follows returns that line and leaves the
\* reader as a next() without the peeks leaves it, with no line cached, so
\* the next() after it returns the following line.
C5_PeekLineKeepsLine == Ready => PeekedTwice(PeekLine(Self), GetLine(Self, TRUE))

\* a line was peeked, after an earlier line was consumed, and another follows
C5_Witness ==
    /\ Ready /\ line # None /\ consumed > 0
    /\ PeekLine(Self).val = line[1]
    /\ Len(Iterate(Self)) >= 2

\* C6: peek(n), n > 0, returns the first min(n, R) units of the data next()
\* has not returned yet.
C6_PeekSizeReturnsUnconsumed ==
    Ready =>
        \A n \in 1..MaxPeek : PeekSize(Self, n).val = Slice(Unconsumed, 0, n)

\* C7 (SpecIter): with strip_delimiter on, iteration yields as many lines as
\* with it off, each the unstripped line without the delimiter match that
\* ends it.
C7_StripEquivalence ==
    (Ready /\ strip_delimiter) =>
        LET ref == Lines(origin, delimiter, FALSE, block_size)
        IN  /\ Len(out) <= Len(ref)
            /\ \A k \in 1..Len(out) : out[k] = WithoutDelimiter(ref[k], delimiter)
            /\ stopped => Len(out) = Len(ref)

\* 'a~a' read with '~' stripped: 'a', 'a'
C7_Witness ==
    /\ Ready /\ stopped /\ strip_delimiter /\ delimiter = Tilde
    /\ out = << <<"a">>, <<"a">> >>

\* in state t, a line cached: peek() and next() return text, peek() changes
\* nothing and next() clears the cache and nothing else
CachedGives(t, text) ==
    /\ PeekLine(t).val = text
    /\ PeekLine(t).s = t
    /\ GetLine(t, TRUE).val = text
    /\ GetLine(t, TRUE).s = [t EXCEPT !.line = None, !.delimiter_pos = None]

\* with the line cached in p, either value of the flag selects between the
\* line and the line up to its delimiter position
FlagSelects(p) ==
    p.line # None =>
        \A b \in BOOLEAN :
            CachedGives([p EXCEPT !.strip_delimiter = b],
                        IF b THEN Slice(p.line[1], 0, p.delimiter_pos[1])
                        ELSE p.line[1])

\* C8: with a line peeked, setting strip_delimiter to either value changes
\* only the text of what peek() and next() return: the flag at the time of
\* the call decides between the line and the line up to its delimiter
\* position, the peek changes nothing else, and next() only drops the cache.
C8_StripToggle == Ready => FlagSelects(PeekLine(Self).s)

\* a line that ends with its delimiter is cached and the flag is on
C8_Witness ==
    /\ Ready /\ line # None /\ strip_delimiter
    /\ delimiter_pos[1] < Len(line[1])
    /\ PeekLine(Self).val # PeekLine([Self EXCEPT !.strip_delimiter = FALSE]).val

\* reset() returned r, without an error and in the state of construction c
ResetGave(r, c) == r.kind = "value" /\ r.s = c.s

\* C9: reset() on a seekable stream succeeds and leaves the reader and its
\* stream in the state of a reader constructed at the recorded start
\* position, so the iteration after it yields that reader's lines.
C9_ResetReproduces ==
    (Ready /\ seekable) =>
        ResetGave(Reset(Self),
                  Construct([Self EXCEPT !.pos = origin], delimiter, form,
                            strip_delimiter, block_size))

\* a pass that began at offset 1 is over; reset() brings its lines back
C9_Witness ==
    /\ Ready /\ seekable /\ origin = 1 /\ stopped /\ Len(out) >= 2
    /\ Iterate(Self) = <<>>
    /\ Iterate(Reset(Self).s) = out

\* C10: reset() on a stream that is not seekable raises ValueError and
\* changes nothing, so iteration continues as without it.
C10_ResetNotSeekable ==
    (Ready /\ ~seekable) =>
        /\ Reset(Self).kind = "ValueError"
        /\ Reset(Self).s = Self
        /\ Iterate(Reset(Self).s) = Iterate(Self)

\* a line was consumed and another peeked on a stream that cannot seek
C10_Witness ==
    /\ Ready /\ ~seekable /\ consumed > 0 /\ line # None
    /\ Reset(Self).kind = "ValueError"

-----------------------------------------------------------------------------
(* C11 - C20 *)

\* the concatenation of the lines ls
RECURSIVE Concat(_)
Concat(ls) == IF ls = <<>> THEN <<>> ELSE Head(ls) \o Concat(Tail(ls))

\* the data the reader was constructed on: the stream from its start position
Input == Slice(content, origin, Len(content))

\* text holds a delimiter unit directly followed by another unit
RunBroken(l) == \E i \in 1..(Len(l) - 1) : l[i] = "~" /\ l[i + 1] # "~"

\* C11 (SpecIter): with the greedy pattern '~+' a run of delimiter units ends
\* exactly one line, whatever the block size: no line holds a delimiter unit
\* before another unit, no line after the first begins with a delimiter
\* unit, and with strip_delimiter on no line holds one at all.
C11_GreedyRun ==
    (Ready /\ delimiter = TildeRun) =>
        \A k \in 1..Len(out) :
            /\ out[k] # <<>> \/ strip_delimiter
            /\ ~RunBroken(out[k])
            /\ k > 1 => (out[k] = <<>> \/ out[k][1] # "~")
            /\ strip_delimiter => \A i \in 1..Len(out[k]) : out[k][i] # "~"

\* 'a~~' read one unit at a time with '~+': the one line 'a~~'
C11_Witness ==
    /\ Ready /\ stopped /\ delimiter = TildeRun /\ block_size = 1
    /\ out = << <<"a", "~", "~">> >>

\* C12 (SpecIter): with a literal delimiter and strip_delimiter off the
\* lines are the consumed input cut into pieces, and a line that begins with
\* the delimiter is the delimiter alone: each occurrence in a run is a line
\* of its own.
C12_LiteralRun ==
    (Ready /\ delimiter.kind = "str" /\ ~strip_delimiter) =>
        /\ Concat(out) = Slice(Input, 0, consumed)
        /\ \A k \in 1..Len(out) :
               Slice(out[k], 0, Len(delimiter.text)) = delimiter.text
                   => out[k] = delimiter.text

\* '~~~' read with '~': three lines '~'
C12_Witness ==
    /\ Ready /\ stopped /\ delimiter = Tilde /\ ~strip_delimiter
    /\ out = << <<"~">>, <<"~">>, <<"~">> >>

\* C13 as stated (SpecIter): a stream whose content holds no occurrence of
\* the literal delimiter yields exactly one line, the content.
C13_OneLine ==
    (Ready /\ stopped /\ delimiter.kind = "str"
           /\ Find(Input, delimiter.text, 0) = NOT_FOUND) =>
        out = <<Input>>

\* C13 amended (SpecIter): a stream whose content is not empty and holds no
\* occurrence of the literal delimiter yields exactly one line, the content.
C13_OneLineNonEmpty ==
    (Ready /\ stopped /\ delimiter.kind = "str" /\ Input # <<>>
           /\ Find(Input, delimiter.text, 0) = NOT_FOUND) =>
        out = <<Input>>

\* 'a~a' read with '~~' in blocks of one: the one line 'a~a'
C13_Witness ==
    /\ Ready /\ stopped /\ delimiter = Tilde2 /\ block_size = 1
    /\ Input = <<"a", "~", "a">> /\ out = <<Input>>

\* C14: on a stream with nothing left to return, empty from the start or
\* consumed in full by next(), iteration yields no line and peek() and
\* peek(n), n >= 0, return empty and raise nothing.
C14_EmptyStream ==
    (Ready /\ origin + consumed = Len(content)) =>
        /\ Iterate(Self) = <<>>
        /\ PeekLine(Self).kind = "value"
        /\ PeekLine(Self).val = <<>>
        /\ \A n \in 0..MaxPeek :
               /\ PeekSize(Self, n).kind = "value"
               /\ PeekSize(Self, n).val = <<>>

\* two lines were returned and nothing is left, StopIteration not yet raised
C14_Witness ==
    /\ Ready /\ ~stopped /\ Len(out) = 2 /\ consumed > 0
    /\ origin + consumed = Len(content)
    /\ PeekLine(Self).val = <<>>

\* C15: peek(n) with n < 0 raises ValueError in every state of the reader,
\* asks nothing of the stream and changes no field.
C15_PeekNegative ==
    Ready =>
        \A n \in 1..MaxPeek :
            /\ PeekSize(Self, 0 - n).kind = "ValueError"
            /\ PeekSize(Self, 0 - n).reads = <<>>
            /\ PeekSize(Self, 0 - n).s = Self

\* a line is cached, data is buffered and the stream is not at its end
C15_Witness ==
    /\ Ready /\ line # None /\ idx < Len(buf) /\ ~eof /\ pos < Len(content)
    /\ PeekSize(Self, 0 - 1).kind = "ValueError"

\* the unit type of delimiter d differs from that of a stream of mode bin
Mistyped(d, bin) == d.kind # "other" /\ ((d.kind \in {"bytes", "bre"}) # bin)

\* d is an empty literal, of the wrong unit type, or no delimiter at all
Refused(d, bin) ==
    \/ d.kind = "other"
    \/ d.kind \in {"str", "bytes"} /\ d.text = <<>>
    \/ Mistyped(d, bin)

\* C16 (SpecConfig): construction with, and assignment of, an empty literal,
\* a literal or pattern of the other unit type, or a value that is neither
\* raises ValueError.
C16_DelimiterRefused ==
    \A d \in AllDelimiters :
        Refused(d, binary) =>
            /\ phase = "new" =>
                   \A strip \in BOOLEAN, bs \in BlockSizes :
                       Construct(Self, d, "None", strip, bs).kind = "ValueError"
            /\ Ready => SetDelimiter(Self, d).kind = "ValueError"

\* a reader on a byte stream, a line consumed, refuses a character pattern
C16_Witness ==
    /\ Ready /\ binary /\ consumed > 0 /\ delimiter = BTilde
    /\ SetDelimiter(Self, TildeRun).kind = "ValueError"

\* pattern d has a zero-length match
MatchesEmpty(d) == d.kind \in {"re", "bre"} /\ MatchAlts(d.alts, 1, <<>>, 0) = 0

\* C17 (SpecConfig): a pattern that can match zero-length is refused with
\* ValueError at construction and on assignment, and a pattern that was
\* accepted never ends a line search with a zero-length match (an empty line).
C17_ZeroLengthRefused ==
    \A d \in AllDelimiters \cup {TStar} :
        /\ MatchesEmpty(d) =>
               /\ phase = "new" =>
                      \A bs \in BlockSizes :
                          Construct(Self, d, "None", FALSE, bs).kind = "ValueError"
               /\ Ready => SetDelimiter(Self, d).kind = "ValueError"
        /\ (Ready /\ line = None /\ d.kind \in {"re", "bre"}
                  /\ SetDelimiter(Self, d).kind = "value") =>
               \/ GetNextLine(SetDelimiter(Self, d).s).raised
               \/ GetNextLine(SetDelimiter(Self, d).s).line # <<>>

\* C18 (SpecConfig): an assignment that raises leaves every field of the
\* reader as it was, the delimiter included, and a valid assignment after it
\* changes the delimiter and nothing else.
C18_RefusedKeepsState ==
    Ready =>
        \A d \in AllDelimiters :
            SetDelimiter(Self, d).kind = "ValueError" =>
                /\ SetDelimiter(Self, d).s = Self
                /\ \A g \in {Tilde2, BTildeRun} :
                       SetDelimiter(Self, g).kind = "value" =>
                           SetDelimiter(SetDelimiter(Self, d).s, g).s
                               = [Self EXCEPT !.delimiter = g]

\* a line is cached under '~+', data is buffered, and '' is refused
C18_Witness ==
    /\ Ready /\ line # None /\ delimiter = TildeRun /\ idx < Len(buf)
    /\ SetDelimiter(Self, Lit(<<>>)).kind = "ValueError"
    /\ SetDelimiter(Self, Tilde).s.delimiter = Tilde

\* the lines of a reader with no form on the text t, with the delimiter,
\* flag and block size of this reader
SplitOf(t) ==
    Iterate(Construct([Self EXCEPT !.content = t, !.pos = 0], delimiter, "None",
                      strip_delimiter, block_size).s)

\* C19 (SpecForm): with a normalization form, the lines iteration has
\* yielded at exhaustion are the lines of the whole input normalized at once
\* and then split, whatever the block size.
C19_NormalizedWhole ==
    (Ready /\ stopped /\ form # "None") => out = SplitOf(normalize(form, Input))

\* C20 (SpecForm): construction with a form that is none of NFC, NFKC, NFD,
\* NFKD and None raises ValueError with the stream untouched: nothing was
\* read and no position was recorded.  The five forms are accepted.
C20_FormRefused ==
    phase = "new" =>
        \A strip \in BOOLEAN, bs \in BlockSizes :
            /\ \A f \in InvalidForms :
                   /\ Construct(Self, Tilde, f, strip, bs).kind = "ValueError"
                   /\ Construct(Self, Tilde, f, strip, bs).s = Self
            /\ \A f \in ValidForms :
                   Construct(Self, Tilde, f, strip, bs).kind = "value"

\* a construction was refused on a seekable stream that still holds data:
\* the position is where it was and no start was recorded
C20_Witness ==
    /\ phase = "rejected" /\ seekable /\ pos = origin /\ pos < Len(content)
    /\ start = None /\ buf = <<>>

-----------------------------------------------------------------------------
(* C21 - C30 *)

\* the buffered data next() has not taken yet
Pending == Slice(buf, idx, Len(buf))

\* C25: peek(n) asks nothing of the stream when the unconsumed buffered data
\* already holds n units or more, and nothing once the end of the stream was
\* reached.
C25_PeekNoRead ==
    Ready =>
        \A n \in 0..MaxPeek :
            (Len(Pending) >= n \/ eof) => PeekSize(Self, n).reads = <<>>

\* C26: every read peek(n) issues asks for a positive multiple of the block
\* size.
C26_PeekReadSizes ==
    Ready =>
        \A n \in 0..MaxPeek :
            \A k \in 1..Len(PeekSize(Self, n).reads) :
                /\ PeekSize(Self, n).reads[k] > 0
                /\ PeekSize(Self, n).reads[k] % block_size = 0

\* C27: the end-of-stream flag is set only when the stream holds no unread
\* data.
C27_EofTruthful ==
    (Ready /\ eof) => (pos = Len(content) /\ prev_extra = <<>>)

\* the rounds of the line search next() runs in this state
Search == Rounds(Self, idx, idx)

\* the pending data of round a and the back-off window the search after it
\* may reach back: the delimiter's length less one for a literal, the length
\* of the provisional match for a pattern, nothing when there is none
PendingLen(a) == Len(a.buf) - a.i
Provisional(a) == ~a.st.final /\ a.st.delimiter_start # NOT_FOUND
Window(a) ==
    IF delimiter.kind = "str" THEN Len(delimiter.text) - 1
    ELSE IF Provisional(a) THEN a.st.end - a.st.delimiter_start ELSE 0

\* C28 as stated (SpecIter): after each fill the search starts no earlier
\* than the window before the end of the data pending before the fill.
C28_NoRescan ==
    (Ready /\ line = None) =>
        \A k \in 1..(Len(Search) - 1) :
            Search[k + 1].search_idx
                >= Max(0, PendingLen(Search[k]) - Window(Search[k]))

\* C28 amended (SpecIter): after each fill the search starts no earlier than
\* the window before the end of the data pending before the fill when the
\* delimiter is a literal or a pattern with a provisional match; after a
\* pattern found no match it starts over at the beginning of the pending data.
C28_NoRescanButUnmatched ==
    (Ready /\ line = None) =>
        \A k \in 1..(Len(Search) - 1) :
            IF delimiter.kind = "re" /\ ~Provisional(Search[k])
            THEN Search[k + 1].search_idx = 0
            ELSE Search[k + 1].search_idx
                     >= Max(0, PendingLen(Search[k]) - Window(Search[k]))

\* a search under '~~' is about to take three rounds, 'a~' pending at the second
C28_Witness ==
    /\ Ready /\ line = None /\ delimiter = Tilde2 /\ block_size = 1
    /\ Len(Search) = 3
    /\ Search[2].buf = <<"a", "~">> /\ Search[3].search_idx = 1

\* the data next() has not taken yet, buffered or still in the stream
Unread == Pending \o Slice(content, pos, Len(content))

\* C29 (SpecIter): with a literal delimiter of length m the search after a
\* fill starts at most m - 1 units before the end of the data pending before
\* the fill (at 0 when there are fewer), and the line ends with the earliest
\* occurrence of the delimiter in the unread data, split by fills or not.
C29_SplitLiteralFound ==
    (Ready /\ line = None /\ delimiter.kind = "str") =>
        /\ \A k \in 1..(Len(Search) - 1) :
               Search[k + 1].search_idx
                   <= Max(0, PendingLen(Search[k]) - (Len(delimiter.text) - 1))
        /\ Find(Unread, delimiter.text, 0) # NOT_FOUND =>
               /\ ~GetNextLine(Self).raised
               /\ GetNextLine(Self).delimiter_pos = Find(Unread, delimiter.text, 0)
               /\ GetNextLine(Self).line
                      = Slice(Unread, 0,
                              Find(Unread, delimiter.text, 0) + Len(delimiter.text))

\* 'a~~' read with '~~' one unit at a time: the delimiter came in two fills
C29_Witness ==
    /\ Ready /\ delimiter = Tilde2 /\ block_size = 1 /\ ~strip_delimiter
    /\ content = <<"a", "~", "~">> /\ out = <<content>>

\* C30 (SpecIter): a pattern match that ends at the end of the buffer ends
\* no line in that round: the search goes on after a fill, from the start of
\* that match, or the end of the stream was seen; a match that ends before
\* the end of the buffer ends the line at once and the cursor moves to the
\* match end.
C30_ProvisionalMatch ==
    (Ready /\ line = None /\ delimiter.kind = "re") =>
        \A k \in 1..Len(Search) :
            /\ (Search[k].st.delimiter_start # NOT_FOUND
                    /\ Search[k].st.end = Len(Search[k].buf)) =>
                   /\ ~Search[k].st.final
                   /\ k = Len(Search) => Search[k].eof
                   /\ k < Len(Search) =>
                          Search[k + 1].search_idx
                              = Search[k].st.delimiter_start - Search[k].i
            /\ (Search[k].st.delimiter_start # NOT_FOUND
                    /\ Search[k].st.end # Len(Search[k].buf)) =>
                   /\ Search[k].st.final
                   /\ k = Len(Search)
                   /\ ~GetNextLine(Self).raised
                   /\ GetNextLine(Self).s.idx = Search[k].st.end
                   /\ GetNextLine(Self).line
                          = Slice(Search[k].buf, Search[k].i, Search[k].st.end)

\* a search under '~+' is about to meet a provisional match after 'a', then
\* a longer one, then the end of the stream
C30_Witness ==
    /\ Ready /\ line = None /\ delimiter = TildeRun /\ block_size = 1
    /\ Len(Search) = 4
    /\ Search[2].buf = <<"a", "~">> /\ Search[3].search_idx = 1
    /\ Search[4].eof

\* the units state s has yet to return: unread in the stream, carried over,
\* buffered beyond the cursor, and a cached line counted as one at least
Left(s) ==
    (Len(s.content) - s.pos) + Len(s.prev_extra) + (Len(s.buf) - s.idx)
        + (IF s.line = None THEN 0 ELSE Max(1, Len(s.line[1])))

\* next() in state s raises StopIteration or leaves less to return
Progresses(s) == GetLine(s, TRUE).raised \/ Left(GetLine(s, TRUE).s) < Left(s)

\* C22 (SpecConfig): iteration is finite: under every delimiter the setter
\* accepts, each next() returns having raised StopIteration or having
\* reduced what is left to return, which is finite.
C22_IterationFinite ==
    Ready =>
        \A d \in AllDelimiters \cup {TStar} :
            SetDelimiter(Self, d).kind = "value" => Progresses(SetDelimiter(Self, d).s)

\* C23 (SpecLines): losslessness: whatever peek() calls, flag changes and
\* delimiter assignments came between the next() calls, a next() with
\* strip_delimiter off returns exactly the input that follows what next()
\* returned before, and raises StopIteration only when all of it was returned.
C23_Lossless ==
    (Ready /\ ~strip_delimiter) =>
        IF GetLine(Self, TRUE).raised
        THEN consumed = Len(Input)
        ELSE GetLine(Self, TRUE).val
                 = Slice(Input, consumed, consumed + Len(GetLine(Self, TRUE).val))

\* '~~~' was returned as '~' and '~~': the delimiter changed between the two
C23_Witness ==
    /\ Ready /\ stopped /\ ~strip_delimiter /\ origin = 0
    /\ out = << <<"~">>, <<"~", "~">> >>
    /\ Concat(out) = content

\* the lines of a reader with no form on this stream from its start
\* position, with the delimiter, flag and block size of this reader
Unformed == Iterate(Construct([Self EXCEPT !.pos = origin], delimiter, "None",
                              strip_delimiter, block_size).s)

\* C21 (SpecBin): on a byte stream a form changes nothing: every read of the
\* normalizing reader returns what the stream's read of that size returns
\* and keeps no carry-over, and the lines are those of a reader with no form.
C21_BytesUnformed ==
    (Ready /\ binary) =>
        /\ prev_extra = <<>>
        /\ \A n \in BlockSizes :
               Read(Self, n)
                   = [data |-> FobjRead(content, pos, n),
                      pos |-> pos + Len(FobjRead(content, pos, n)),
                      prev_extra |-> <<>>]
        /\ Len(out) <= Len(Unformed)
        /\ \A k \in 1..Len(out) : out[k] = Unformed[k]
        /\ stopped => Len(out) = Len(Unformed)

\* the bytes '~o^' read with NFC in blocks of one: lines '~' and 'o^'
C21_Witness ==
    /\ Ready /\ binary /\ form = "NFC" /\ block_size = 1 /\ stopped
    /\ out = << <<"~">>, <<"o", "^">> >>

\* the file name io.open is to be given for an accepted file name
Passed(file_name) ==
    IF file_name.kind \in {"str", "bytes", "int"} THEN file_name
    ELSE IF file_name.kind = "Path" THEN Name("str", file_name.v)
    ELSE file_name.fspath[1]

\* C24 (SpecOpen): open_file raises TypeError and opens nothing when the
\* file name is no str, bytes, int or pathlib.Path and has no __fspath__;
\* otherwise it calls io.open once, with the file name itself, the path of
\* the Path or what __fspath__ returns, and the other arguments as given.
C24_OpenFile ==
    opening.result # "none" =>
        IF opening.file_name.kind = "object" /\ opening.file_name.fspath = None
        THEN opening.result = "TypeError" /\ opening.calls = <<>>
        ELSE /\ opening.result = "stream"
             /\ opening.calls
                    = <<[file_name |-> Passed(opening.file_name),
                         args |-> opening.args]>>

\* open_file(an open file object, 'rb') raised TypeError
C24_Witness ==
    /\ opening.result = "TypeError"
    /\ opening.file_name = Name("object", "file")
    /\ opening.args = <<"rb">>

-----------------------------------------------------------------------------
(* C31 - C39 *)

\* the delimiter position dp lies within line l
Within(l, dp) == 0 <= dp /\ dp <= Len(l)

\* the search ended in round a without a final match, at the end of the
\* stream, and r is what _get_next_line returned: the pending data when
\* there is some, whole under either flag when no delimiter matched in it,
\* StreamExhausted when there is none
EndedAtEof(a, r) ==
    /\ a.eof
    /\ PendingLen(a) > 0 =>
           /\ ~r.raised
           /\ r.line = Slice(a.buf, a.i, Len(a.buf))
           /\ a.st.delimiter_start = NOT_FOUND =>
                  /\ r.delimiter_pos = Len(r.line)
                  /\ Format([Self EXCEPT !.strip_delimiter = TRUE], r.line,
                            r.delimiter_pos)
                         = Format([Self EXCEPT !.strip_delimiter = FALSE], r.line,
                                  r.delimiter_pos)
    /\ PendingLen(a) = 0 => r.raised

FinalLine(a, r) ==
    /\ ~a.st.final => EndedAtEof(a, r)
    /\ ~r.raised => Within(r.line, r.delimiter_pos)

\* C31: at the end of the stream a non-empty rest of the buffer is returned
\* as the last line, with the delimiter position at the line's length when
\* no delimiter matched in it, so that it reads the same stripped or not; an
\* empty rest gives no line but the end of the iteration; the delimiter
\* position of every line, returned or cached, lies within the line.
C31_FinalLine ==
    Ready =>
        IF line = None
        THEN FinalLine(Search[Len(Search)], GetNextLine(Self))
        ELSE Within(line[1], delimiter_pos[1])

\* a line was returned and the next search is about to end at the end of
\* the stream on data that holds no delimiter, strip_delimiter on
C31_Witness ==
    /\ Ready /\ line = None /\ strip_delimiter /\ Len(out) = 1
    /\ ~Search[Len(Search)].st.final
    /\ PendingLen(Search[Len(Search)]) > 0
    /\ Search[Len(Search)].st.delimiter_start = NOT_FOUND
    /\ Len(Search) > 1

\* C32 (SpecConfig): a construction refused for its delimiter has asked
\* nothing of the stream: the stream is where it was before.
C32_EagerValidation == phase = "rejected" => (pos = origin /\ prev_extra = <<>>)

\* the first read of a reader on this stream from its recorded start
Refilled == Read([Self EXCEPT !.pos = start[1], !.prev_extra = <<>>], block_size)

\* reset() returned r: cache, cursor and carry-over cleared, the buffer
\* filled anew from the recorded start and the flag set by that read alone,
\* the reader's settings as they are now
ResetCleared(r, first) ==
    /\ r.kind = "value"
    /\ r.s.line = None /\ r.s.delimiter_pos = None
    /\ r.s.idx = 0
    /\ r.s.buf = first.data
    /\ r.s.eof = (first.data = <<>>)
    /\ r.s.pos = first.pos
    /\ r.s.prev_extra = first.prev_extra
    /\ r.s.start = start
    /\ r.s.delimiter = delimiter
    /\ r.s.strip_delimiter = strip_delimiter
    /\ r.s.block_size = block_size
    /\ r.s.form = form

\* C33 (SpecReset): reset() on a seekable stream clears the cached line, the
\* cursor, the end-of-stream flag and the carry-over and fills the buffer
\* anew from the recorded start, and leaves the delimiter and the flag
\* assigned since construction, the block size and the form as they are.
C33_ResetFrame == (Ready /\ seekable) => ResetCleared(Reset(Self), Refilled)

\* a line is cached and data carried over, and delimiter and flag are no
\* longer those of the construction
C33_Witness ==
    /\ Ready /\ seekable /\ form = "NFC"
    /\ line # None /\ prev_extra # <<>> /\ idx > 0 /\ Len(out) = 1
    /\ delimiter = Tilde2 /\ strip_delimiter

\* the position in the stream up to which state s has consumed data
ConsumedTo(s) == s.pos - Len(s.prev_extra) - (Len(s.buf) - s.idx)

\* next() in state s returned r: a non-empty line, and one that moved the
\* consumed position forward unless it came from the cache
Advanced(s, r) ==
    ~r.raised =>
        /\ r.val # <<>>
        /\ ~r.cached => ConsumedTo(r.s) > ConsumedTo(s)

LiteralProgress(s) == Advanced(s, GetLine(s, TRUE))

\* the literal delimiters of this stream's mode
Literals == IF binary THEN {BTilde} ELSE {Tilde, Tilde2}

\* the values the setter accepts in this state
Accepted == {p \in AllDelimiters \cup {TStar} : SetDelimiter(Self, p).kind = "value"}

\* the reader after r.delimiter = p; r.peek(); r.delimiter = d
PeekedUnder(p, d) == SetDelimiter(PeekLine(SetDelimiter(Self, p).s).s, d).s

\* C37 (SpecConfig): with a literal delimiter and strip_delimiter off every
\* line next() returns is non-empty, and a next() that takes its line from
\* the stream and not from the cache moves the consumed position forward,
\* whatever accepted delimiter the reader had and peeked under before.
C37_LiteralProgress ==
    (Ready /\ ~strip_delimiter) =>
        \A d \in Literals :
            /\ LiteralProgress(SetDelimiter(Self, d).s)
            /\ \A p \in Accepted : LiteralProgress(PeekedUnder(p, d))

\* the state is exhausted: next() raises StopIteration, peek() and peek(n)
\* return empty
Exhausted(s) ==
    /\ GetLine(s, TRUE).raised
    /\ GetLine(s, TRUE).s.line = None
    /\ PeekLine(s).val = <<>>
    /\ \A n \in 0..MaxPeek : PeekSize(s, n).val = <<>>

\* C38: in every state after next() has raised StopIteration, whatever
\* calls but reset() came since, next() raises it again and peek() and
\* peek(n) return empty, and so they do under every delimiter the setter
\* accepts and under either value of the flag.
C38_ExhaustionAbsorbing ==
    (Ready /\ stopped) =>
        /\ Exhausted(Self)
        /\ \A d \in Accepted, b \in BOOLEAN :
               Exhausted([SetDelimiter(Self, d).s EXCEPT !.strip_delimiter = b])

\* iteration ended after two lines while the stream still holds data the
\* reader never read
C38_Witness ==
    /\ Ready /\ stopped /\ Len(out) = 2 /\ pos < Len(content)

\* C39 (SpecConfig): what peek() and peek(n) return is of the stream's unit
\* type, bytes on a byte stream and characters on a character stream, when
\* it is empty too.
C39_PeekUnitType ==
    Ready =>
        /\ PeekLine(Self).bytes = binary
        /\ \A n \in 0..MaxPeek : PeekSize(Self, n).bytes = binary

\* the buffers, before normalization, of the reads so far, in one
RECURSIVE Raws(_)
Raws(rs) == IF rs = <<>> THEN <<>> ELSE rs[1].raw \o Raws(Tail(rs))

\* the stream position after the raw content of the chunks read so far
ChunkEnd == origin + Len(Raws(out))

\* no combining unit stands at position e of the stream
AtBoundary(e) == e >= Len(content) \/ ~combining(content[e + 1])

\* C35 (SpecScan): with a form on a character stream every chunk read ends
\* at the boundary of a combining sequence: the unit of the stream that
\* follows the chunk's raw content is no combining unit, or there is none,
\* whatever the sizes and scan sizes of this and the earlier reads.
C35_ChunkBoundary ==
    (phase = "reading" /\ out # <<>>) =>
        /\ ChunkEnd = pos - Len(prev_extra)
        /\ AtBoundary(ChunkEnd)

\* 'o^^' was read in one chunk by read(1) under a scan size of 1
C35_Witness ==
    /\ phase = "reading" /\ form = "NFC"
    /\ content = <<"o", "^", "^">>
    /\ Len(out) = 1 /\ out[1].size = 1 /\ out[1].scan = 1
    /\ out[1].raw = content

\* C36 (SpecScan): nothing is lost or repeated through the carry-over: the
\* raw content of the chunks read so far, followed by the carry-over, is
\* the stream from the start position to where it stands, each chunk is its
\* raw content normalized, and a read returned empty only with nothing
\* carried over and nothing left in the stream, the chunks then being the
\* whole of the stream.
C36_CarryOverLossless ==
    phase = "reading" =>
        /\ Raws(out) \o prev_extra = Slice(content, origin, pos)
        /\ \A k \in 1..Len(out) :
               /\ out[k].data = normalize(form, out[k].raw)
               /\ out[k].data = <<>> =>
                      /\ k = Len(out) /\ stopped
                      /\ prev_extra = <<>> /\ pos = Len(content)
                      /\ Raws(out) = Slice(content, origin, Len(content))

\* 'o^~' was read as 'o^' and '~', the '~' carried over from the first scan
C36_Witness ==
    /\ phase = "reading" /\ form = "NFC" /\ origin = 0
    /\ content = <<"o", "^", "~">>
    /\ Len(out) = 2 /\ out[1].size = 1 /\ out[1].scan = 2
    /\ out[1].raw = <<"o", "^">> /\ out[1].data = <<"O">>
    /\ out[2].raw = <<"~">>
    /\ prev_extra = <<>>

\* the number of reads next() and peek() ask of a sound source in this state
LineReads == IF line = None THEN Len(Search) - 1 ELSE 0

\* a call that asks needed reads of a sound source ended as r on a source
\* whose read raises after k reads: with that OSError, at the read that
\* raised and no read after it, when the call came that far
Propagates(r, needed, k) ==
    IF needed > k THEN r.error = "OSError" /\ r.asked = k + 1
    ELSE r.error # "OSError" /\ r.asked = needed

\* r is what the call gives on a sound source, value or StopIteration
Sound(r, state, raised, val) ==
    /\ r.s = state
    /\ r.val = val
    /\ r.error = IF raised THEN "StopIteration" ELSE "none"

\* C34 (SpecFault): an OSError the source's read raises during next(), peek()
\* or peek(n) leaves the call as that OSError, at the first read that raises
\* and with no further read: it is not reported as StopIteration nor as an
\* empty result; a call that ends before that read does what it does on a
\* sound source.
C34_ReadErrorPropagates ==
    Ready =>
        \A k \in Countdowns :
            /\ Propagates(NextFailing(Self, k), LineReads, k)
            /\ Propagates(PeekLineFailing(Self, k), LineReads, k)
            /\ LineReads <= k =>
                   /\ Sound(NextFailing(Self, k), GetLine(Self, TRUE).s,
                            GetLine(Self, TRUE).raised, GetLine(Self, TRUE).val)
                   /\ Sound(PeekLineFailing(Self, k), PeekLine(Self).s, FALSE,
                            PeekLine(Self).val)
            /\ \A n \in 0..MaxPeek :
                   /\ Propagates(PeekSizeFailing(Self, n, k),
                                 Len(PeekSize(Self, n).reads), k)
                   /\ Len(PeekSize(Self, n).reads) <= k =>
                          Sound(PeekSizeFailing(Self, n, k), PeekSize(Self, n).s,
                                FALSE, PeekSize(Self, n).val)

\* a line was returned and a later call ended with the OSError of its
\* second read, the data of the first in the buffer
C34_Witness ==
    /\ phase = "failed" /\ Len(out) = 1 /\ line = None /\ ~eof
    /\ block_size = 1 /\ pos = Len(content) - 1 /\ Len(buf) = 2

====
